---------------------------- MODULE Spec2Model ----------------------------
(***************************************************************************)
(* A model of ts-command-queue: CommandQueue (src/src/CommandQueue.ts),     *)
(* View (src/src/View.ts) and ViewDerivation (src/src/ViewDerivation.ts).   *)
(*                                                                         *)
(* The JavaScript run-time is modelled by its job queues:                  *)
(*   mq      the microtask queue (FIFO): continuations of `await` and      *)
(*           `.then` on settled promises;                                  *)
(*   waiters the reactions registered on a node's pending `isInitialized`  *)
(*           promise, moved to mq in registration order when it resolves;  *)
(*   timers  the reducer promises of an asynchronous node that have not    *)
(*           resolved yet (the tests resolve them from setTimeout); they   *)
(*           resolve in any order, each in a macrotask of its own.         *)
(* Everything a method does between two suspension points is one action.   *)
(*                                                                         *)
(* States are primitive values (numbers), so `===` is equality: a View's   *)
(* state is the bit set of the ids it holds, a derivation's state is the   *)
(* number of ids of its parent (TotalCountDerivation of the tests).        *)
(***************************************************************************)
EXTENDS Integers, Sequences, FiniteSets, TLC

\* ------------------------------------------------------------------ bounds
MaxPush == 2    \* CommandQueue.push calls in a behaviour
MaxSub == 2     \* subscribe calls in a behaviour
MaxInit == 2    \* initialize calls per node where a node is registered again

\* ------------------------------------------------------------------ universe
Views == {"v1", "v2"}
Derivs == {"d1", "d2"}
Nodes == Views \cup Derivs
Callbacks == {"f", "g"}
Cmd == {"a1", "r1", "a2"}

Undef == -1     \* `private currentState: O;` before initialize has set it
Thrown == -2    \* in place of a result: the call threw, or its promise rejected
NoOne == "-"

\* An entry of the queue: what one CommandQueue.push call was given. A single
\* command c is [arr |-> FALSE, cs |-> <<c>>], an array is [arr |-> TRUE, ...].
Single(c) == [arr |-> FALSE, cs |-> <<c>>]
Batch(cs) == [arr |-> TRUE, cs |-> cs]
Batches == {<<"a1", "r1">>}

\* ------------------------------------------------------------------ reducers
Bit(c) == IF c \in {"a1", "r1"} THEN 1 ELSE 2
Has(s, c) == (s \div Bit(c)) % 2 = 1

\* View.getInitialState of the test views: the empty collection.
getInitialState == 0

\* View.getNextState of the test views (SynchronousView, MapView): add or
\* remove an id, returning the state itself when nothing changes. The command
\* "x" is one the reducer throws on.
getNextState(s, c) ==
  CASE c = "x" -> Thrown
    [] c \in {"a1", "a2"} -> IF Has(s, c) THEN s ELSE s + Bit(c)
    [] c = "r1" -> IF Has(s, c) THEN s - Bit(c) ELSE s
    [] OTHER -> s

\* getNextState handed one queue entry: an array is no command, the reducer's
\* switch matches no case and returns the state it was given.
\* A reducer call whose exception is caught and ignored: the fold goes on with
\* the state it had.
ApplyEntryCaught(s, e) ==
  IF e.arr \/ getNextState(s, e.cs[1]) = Thrown THEN s ELSE getNextState(s, e.cs[1])

ApplyEntry(s, e) == IF e.arr THEN s ELSE getNextState(s, e.cs[1])

\* TotalCountDerivation.getInitialState / getNextState.
derivInitialState == 0
derivNextState(parentState, cur) == (parentState % 2) + ((parentState \div 2) % 2)

\* A second ViewDerivation, for a derivation of a derivation: one more than
\* its parent's state, so that no state it computes is its getInitialState.
secondInitialState == 0
secondNextState(parentState, cur) == parentState + 1

\* getInitialState / getNextState of the derivation d.
InitialStateOf(d) == IF d = "d2" THEN secondInitialState ELSE derivInitialState
NextStateOf(d, parentState, cur) ==
  IF d = "d2" THEN secondNextState(parentState, cur) ELSE derivNextState(parentState, cur)

\* initialize that exposes getInitialState as it is
SeedStateBare(d, parentState) == InitialStateOf(d)

\* ViewDerivation.initialize: getNextState(parentState, getInitialState())
SeedState(d, parentState) == NextStateOf(d, parentState, InitialStateOf(d))

\* The commands of a push as the entries View.push folds one by one.
Items(e) == [i \in 1..Len(e.cs) |-> Single(e.cs[i])]

RECURSIVE FoldEntries(_, _)
FoldEntries(s, es) ==
  IF es = <<>> THEN s ELSE FoldEntries(ApplyEntry(s, Head(es)), Tail(es))

VARIABLES
  queue,          \* CommandQueue.queue
  views,          \* CommandQueue.views, in insertion order
  currentState,   \* node -> its currentState
  isInitialized,  \* node -> "pending" | "resolved" | "rejected"
  subscriptions,  \* node -> its callbacks, in insertion order
  derivations,    \* node -> its derivations, in insertion order
  async,          \* the nodes whose getInitialState/getNextState return promises
  throws,         \* the <<node, method>> whose method throws (or rejects) when called
  waiters, mq, timers,
  calls,          \* history: view -> the getNextState calls made, in order
  seen,           \* history: <<node, callback>> -> the values it was called with
  pdcs,           \* history: derivation -> the parentDidChange arguments
  everReg,        \* history: nodes handed to registerView / registerDerivation
  regAt,          \* history: view -> length of the queue when it was registered
  held,           \* history: view -> queue positions pushed while its gate was pending
  nsub,           \* history: subscribe calls made
  unregAt,        \* history: node -> length of the queue when it was unregistered / deregistered
  gone,           \* history: the <<node, callback>> unsubscribed and not subscribed since
  ninit,          \* history: node -> the calls of its getInitialState made
  last            \* history: what the last step was

vars == <<queue, views, currentState, isInitialized, subscriptions, derivations,
          async, throws, waiters, mq, timers, calls, seen, pdcs, everReg, regAt, held,
          nsub, unregAt, gone, ninit, last>>


\* ------------------------------------------------------------------ jobs
\* A suspended call. k is the point it is suspended at:
\*   "push"    View.push at `await this.isInitialized`        (rest: its commands)
\*   "fold"    View.push at `await result` inside the fold    (acc: the promised
\*             state, rest: the commands left, pre: the state the fold read)
\*   "init"    View.initialize at `await`                     (acc, rest likewise)
\*   "catchup" subscribe's `.then` callback                   (who: the callback,
\*             acc: the node's state when subscribe was called, history only)
\*   "dreg"    registerDerivation's `.then` callback          (who: the derivation)
\*   "dinit1"  ViewDerivation.initialize at `await this.getInitialState()`
\*             (acc: the parent state it was handed)
\*   "dinit2"  ViewDerivation.initialize at `await this.getNextState(...)`
\*             (acc: the result, pre: the parent state it was handed)
\*   "pdc"     parentDidChange at `await this.isInitialized`  (acc: parent state)
\*   "pdcFin"  parentDidChange at `await this.getNextState(...)` (acc: the result)
\* idx is the queue position of the push a job belongs to (0: none); pre is
\* history only.
Job(k, n, acc, pre, rest, idx, who) ==
  [k |-> k, n |-> n, acc |-> acc, pre |-> pre, rest |-> rest, idx |-> idx, who |-> who]

\* What the last step was (history). k is "env" for a call from outside,
\* "unreg" for unregisterView(n), "unsub" for unsubscribe on node n, "dinit" for a call of initialize on the
\* derivation n (res: the parent state handed to it), "throw" for a push or
\* parentDidChange that ended in an exception of the reducer,
\* "suspend" for a fold that suspended, "catchup" for a catch-up call of
\* subscribe (pre: the node's state when subscribe was called, res: the value
\* handed to the callback), or "fin" for the end of a
\* push / parentDidChange of node n: pre is the state its fold started from,
\* res the value it folded to, old the node's state when it ended, idx the
\* queue position of the push.
Step(k, n, pre, res, old, idx) ==
  [k |-> k, n |-> n, pre |-> pre, res |-> res, old |-> old, idx |-> idx]
NoStep == Step("env", NoOne, Undef, Undef, Undef, 0)

\* The whole state as one record, so that the synchronous part of a method can
\* be written as a composition of functions on it.
Now ==
  [queue |-> queue, views |-> views, currentState |-> currentState,
   isInitialized |-> isInitialized, subscriptions |-> subscriptions,
   derivations |-> derivations, waiters |-> waiters, mq |-> mq, timers |-> timers,
   calls |-> calls, seen |-> seen, pdcs |-> pdcs, everReg |-> everReg,
   regAt |-> regAt, held |-> held,
   nsub |-> nsub, unregAt |-> unregAt, gone |-> gone, ninit |-> ninit,
   last |-> NoStep]

Commit(s) ==
  /\ queue' = s.queue
  /\ views' = s.views
  /\ currentState' = s.currentState
  /\ isInitialized' = s.isInitialized
  /\ subscriptions' = s.subscriptions
  /\ derivations' = s.derivations
  /\ waiters' = s.waiters
  /\ mq' = s.mq
  /\ timers' = s.timers
  /\ calls' = s.calls
  /\ seen' = s.seen
  /\ pdcs' = s.pdcs
  /\ everReg' = s.everReg
  /\ regAt' = s.regAt
  /\ held' = s.held
  /\ nsub' = s.nsub
  /\ unregAt' = s.unregAt
  /\ gone' = s.gone
  /\ ninit' = s.ninit
  /\ last' = s.last
  /\ async' = async
  /\ throws' = throws

InSeq(x, sq) == \E i \in 1..Len(sq) : sq[i] = x
SetAdd(sq, x) == IF InSeq(x, sq) THEN sq ELSE Append(sq, x)
SetDelete(sq, x) == SelectSeq(sq, LAMBDA y : y # x)

Init ==
  /\ queue = <<>>
  /\ views = <<>>
  /\ currentState = [n \in Nodes |-> Undef]
  /\ isInitialized = [n \in Nodes |-> "pending"]
  /\ subscriptions = [n \in Nodes |-> <<>>]
  /\ derivations = [n \in Nodes |-> <<>>]
  /\ async \in SUBSET {"v1"}
  /\ throws = {}
  /\ waiters = [n \in Nodes |-> <<>>]
  /\ mq = <<>>
  /\ timers = {}
  /\ calls = [n \in Views |-> <<>>]
  /\ seen = [p \in Nodes \X Callbacks |-> <<>>]
  /\ pdcs = [d \in Derivs |-> <<>>]
  /\ everReg = {}
  /\ regAt = [v \in Views |-> Undef]
  /\ held = [v \in Views |-> {}]
  /\ nsub = 0
  /\ unregAt = [n \in Nodes |-> Undef]
  /\ gone = {}
  /\ ninit = [n \in Nodes |-> 0]
  /\ last = NoStep


\* ------------------------------------------------------------------ promises
Enq(s, j) == [s EXCEPT !.mq = Append(@, j)]

\* `await result` for the result of a reducer of node n: a promise that
\* resolves some time later when the reducer is asynchronous, else a value,
\* and the continuation j is the next microtask but others queued before.
AwaitResult(s, n, j) ==
  IF n \in async THEN [s EXCEPT !.timers = @ \cup {j}] ELSE Enq(s, j)

\* `await this.isInitialized` and `this.isInitialized.then(...)`: the
\* continuation j runs in a later microtask once the promise has resolved, and
\* never when it is rejected (the await throws, the then has no handler).
AwaitGate(s, n, j) ==
  CASE s.isInitialized[n] = "pending" -> [s EXCEPT !.waiters[n] = Append(@, j)]
    [] s.isInitialized[n] = "resolved" -> Enq(s, j)
    [] OTHER -> s

\* `this.resolve()`: settles the promise once; its reactions are queued in the
\* order they were registered.
Resolve(s, n) ==
  IF s.isInitialized[n] # "pending" THEN s
  ELSE [s EXCEPT !.isInitialized[n] = "resolved",
                 !.mq = @ \o s.waiters[n],
                 !.waiters[n] = <<>>]

\* initialize without its try/catch around the fold: the gate opens anyway.
RejectResolves(s, n) == Resolve(s, n)

\* `this.reject(e)`: settles the promise once. Its reactions never run the
\* code that waits for the gate: an `await` on it throws, a `.then(f)` skips f.
Reject(s, n) ==
  IF s.isInitialized[n] # "pending" THEN s
  ELSE [s EXCEPT !.isInitialized[n] = "rejected", !.waiters[n] = <<>>]

Throws(n, m) == <<n, m>> \in throws

\* ------------------------------------------------------------------ View / ViewDerivation
fireCallbacks(s, n, val) ==
  [s EXCEPT !.seen = [p \in Nodes \X Callbacks |->
                        IF p[1] = n /\ InSeq(p[2], s.subscriptions[n])
                        THEN Append(@[p], val) ELSE @[p]]]

\* A parentDidChange without `await this.isInitialized`: a ready derivation
\* folds and calls its subscribers inside the parent's wave.
parentDidChangeAtOnce(s, d, val) ==
  LET s1 == [s EXCEPT !.pdcs[d] = Append(@, val)]
      r == NextStateOf(d, val, s.currentState[d])
  IN IF s.isInitialized[d] # "resolved"
     THEN [s1 EXCEPT !.waiters[d] = Append(@, Job("pdc", d, val, Undef, <<>>, 0, NoOne))]
     ELSE IF r # s.currentState[d]
     THEN fireCallbacks([s1 EXCEPT !.currentState[d] = r], d, r)
     ELSE s1

\* ViewDerivation.parentDidChange up to its first await.
parentDidChange(s, d, val) ==
  AwaitGate([s EXCEPT !.pdcs[d] = Append(@, val)], d,
            Job("pdc", d, val, Undef, <<>>, 0, NoOne))

\* forEach that hands every derivation the change twice
RECURSIVE NotifyEachTwice(_, _, _)
NotifyEachTwice(s, ds, val) ==
  IF ds = <<>> THEN s
  ELSE NotifyEachTwice(parentDidChange(parentDidChange(s, Head(ds), val), Head(ds), val),
                       Tail(ds), val)

RECURSIVE NotifyEach(_, _, _)
NotifyEach(s, ds, val) ==
  IF ds = <<>> THEN s
  ELSE NotifyEach(parentDidChange(s, Head(ds), val), Tail(ds), val)

updateDerivations(s, n, val) == NotifyEach(s, s.derivations[n], val)

\* Finish without the derivations (View before registerDerivation existed).
FinishNoDerivations(s, n, nextState) ==
  IF nextState # s.currentState[n]
  THEN fireCallbacks([s EXCEPT !.currentState[n] = nextState], n, nextState)
  ELSE s

\* A wave that hands the subscribers the state the node had before.
FinishOldValue(s, n, nextState) ==
  IF nextState # s.currentState[n]
  THEN updateDerivations(
         fireCallbacks([s EXCEPT !.currentState[n] = nextState], n, s.currentState[n]),
         n, nextState)
  ELSE s

\* The end of View.push and of ViewDerivation.parentDidChange: the strict
\* comparison with the node's state and, when it differs, the wave.
Finish(s, n, nextState) ==
  IF nextState # s.currentState[n]
  THEN updateDerivations(
         fireCallbacks([s EXCEPT !.currentState[n] = nextState], n, nextState),
         n, nextState)
  ELSE s

Ended(s, n, pre, res, idx) ==
  [s EXCEPT !.last = Step("fin", n, pre, res, s.currentState[n], idx)]

Call(s, v, st, e, idx, live) ==
  [s EXCEPT !.calls[v] = Append(@, [st |-> st, e |-> e, idx |-> idx, live |-> live])]

\* The fold of View.push from the state acc over the commands rest: a
\* synchronous View runs it to the end, an asynchronous one suspends at each
\* getNextState. When getNextState has thrown (its promise has rejected) push
\* ends there: its own promise rejects and nobody looks at it.
RECURSIVE FoldFrom(_, _, _, _, _, _)
FoldFrom(s, v, acc, pre, rest, idx) ==
  IF acc = Thrown
  THEN [s EXCEPT !.last = Step("throw", v, pre, Undef, s.currentState[v], idx)]
  ELSE IF rest = <<>>
  THEN Finish(Ended(s, v, pre, acc, idx), v, acc)
  ELSE LET r == ApplyEntry(acc, Head(rest))
           s1 == Call(s, v, acc, Head(rest), idx, TRUE)
       IN IF v \in async
          THEN [s1 EXCEPT !.timers = @ \cup {Job("fold", v, r, pre, Tail(rest), idx, NoOne)},
                          !.last = Step("suspend", v, pre, Undef, Undef, idx)]
          ELSE FoldFrom(s1, v, r, pre, Tail(rest), idx)

\* The initialize of an earlier revision, whose fold was
\* `queue.forEach(async command => { state = await this.getNextState(state, command); })`:
\* it does not wait for the steps, stores the initial state and resolves.
InitFromForEach(s, v, acc, rest, done) ==
  IF acc = Thrown THEN Reject(s, v)
  ELSE Resolve([s EXCEPT !.currentState[v] = acc], v)

\* An initialize that folds the queue's own array rather than a copy of it: it
\* goes on to the entries pushed while it was suspended.
RECURSIVE InitFromLive(_, _, _, _, _)
InitFromLive(s, v, acc, rest, done) ==
  LET left == SubSeq(s.queue, done + 1, Len(s.queue))
  IN IF acc = Thrown
     THEN Reject(s, v)
     ELSE IF left = <<>>
     THEN Resolve([s EXCEPT !.currentState[v] = acc], v)
     ELSE LET r == ApplyEntry(acc, Head(left))
              s1 == Call(s, v, acc, Head(left), done + 1, FALSE)
          IN IF v \in async
             THEN [s1 EXCEPT !.timers = @ \cup {Job("init", v, r, Undef, Tail(left), done + 1, NoOne)}]
             ELSE InitFromLive(s1, v, r, Tail(left), done + 1)

\* The fold of View.initialize from the state acc over the snapshot entries
\* rest, done of them already folded; `catch (e) { this.reject(e) }` when
\* getInitialState or getNextState has thrown.
RECURSIVE InitFrom(_, _, _, _, _)
InitFrom(s, v, acc, rest, done) ==
  IF acc = Thrown
  THEN Reject(s, v)
  ELSE IF rest = <<>>
  THEN Resolve([s EXCEPT !.currentState[v] = acc], v)
  ELSE LET r == ApplyEntry(acc, Head(rest))
           s1 == Call(s, v, acc, Head(rest), done + 1, FALSE)
       IN IF v \in async
          THEN [s1 EXCEPT !.timers = @ \cup {Job("init", v, r, Undef, Tail(rest), done + 1, NoOne)}]
          ELSE InitFrom(s1, v, r, Tail(rest), done + 1)

\* View.initialize(queue) up to its first suspension.
initialize(s, v, snapshot) ==
  LET initialResult == IF Throws(v, "init") THEN Thrown ELSE getInitialState
      s0 == [s EXCEPT !.ninit[v] = @ + 1]
  IN IF v \in async
     THEN [s0 EXCEPT !.timers = @ \cup {Job("init", v, initialResult, Undef, snapshot, 0, NoOne)}]
     ELSE InitFrom(s0, v, initialResult, snapshot, 0)

\* View.push that does not wait for initialize.
viewPushNoWait(s, v, e, idx) ==
  Enq(s, Job("push", v, Undef, Undef, Items(e), idx, NoOne))

\* View.push(command) up to `await this.isInitialized`.
viewPush(s, v, e, idx) ==
  AwaitGate([s EXCEPT !.held[v] = IF s.isInitialized[v] = "pending"
                                  THEN @ \cup {idx} ELSE @],
            v, Job("push", v, Undef, Undef, Items(e), idx, NoOne))

\* A forwarding loop that waits for each view in turn: a view that is not
\* ready keeps the views after it from getting the command.
RECURSIVE pushToViewsInTurn(_, _, _, _)
pushToViewsInTurn(s, vs, e, idx) ==
  IF vs = <<>> THEN s
  ELSE IF s.isInitialized[Head(vs)] # "resolved" THEN s
  ELSE pushToViewsInTurn(viewPush(s, Head(vs), e, idx), Tail(vs), e, idx)

RECURSIVE pushToViews(_, _, _, _)
pushToViews(s, vs, e, idx) ==
  IF vs = <<>> THEN s
  ELSE pushToViews(viewPush(s, Head(vs), e, idx), Tail(vs), e, idx)

\* `[...this.queue]`
Snapshot(q) == q

\* ------------------------------------------------------------------ actions
\* CommandQueue.push(command)
QPush(e) ==
  /\ Len(queue) < MaxPush
  /\ LET s1 == [Now EXCEPT !.queue = Append(@, e)]
     IN Commit(pushToViews(s1, s1.views, e, Len(s1.queue)))

\* CommandQueue.registerView(view), for a view not registered before
RegisterView(v) ==
  /\ v \notin everReg
  /\ LET s1 == [Now EXCEPT !.views = SetAdd(@, v),
                           !.everReg = @ \cup {v},
                           !.regAt[v] = Len(queue)]
     IN Commit(initialize(s1, v, Snapshot(s1.queue)))

\* registerView(view) for a view that was registered before: the same code
\* runs, initialize included.
RegisterViewAgain(v) ==
  /\ v \in everReg
  /\ ninit[v] < MaxInit
  /\ LET s1 == [Now EXCEPT !.views = SetAdd(@, v), !.unregAt[v] = Undef]
     IN Commit(initialize(s1, v, Snapshot(s1.queue)))

\* unregisterView that leaves the view attached
UnregisterViewKeep(v) ==
  /\ Commit([Now EXCEPT !.unregAt[v] = IF InSeq(v, views) THEN Len(queue) ELSE @,
                        !.last = Step("unreg", v, Undef, Undef, Undef, 0)])

\* CommandQueue.unregisterView(view), and the function registerView returned
UnregisterView(v) ==
  /\ Commit([Now EXCEPT !.views = SetDelete(@, v),
                        !.unregAt[v] = IF InSeq(v, views) THEN Len(queue) ELSE @,
                        !.last = Step("unreg", v, Undef, Undef, Undef, 0)])

\* subscribe that calls back without waiting for the node to be ready
SubscribeNoWait(n, cb) ==
  /\ nsub < MaxSub
  /\ LET s1 == [Now EXCEPT !.subscriptions[n] = SetAdd(@, cb), !.nsub = @ + 1,
                           !.gone = @ \ {<<n, cb>>}]
     IN Commit(Enq(s1, Job("catchup", n, currentState[n], Undef, <<>>, 0, cb)))

\* subscribe(callback) of a View or a ViewDerivation
Subscribe(n, cb) ==
  /\ nsub < MaxSub
  /\ LET s1 == [Now EXCEPT !.subscriptions[n] = SetAdd(@, cb), !.nsub = @ + 1,
                           !.gone = @ \ {<<n, cb>>}]
     IN Commit(AwaitGate(s1, n, Job("catchup", n, currentState[n], Undef, <<>>, 0, cb)))

\* unsubscribe that leaves the callback subscribed
UnsubscribeKeep(n, cb) ==
  /\ Commit([Now EXCEPT !.gone = @ \cup {<<n, cb>>},
                        !.last = Step("unsub", n, Undef, Undef, Undef, 0)])

\* unsubscribe(callback), and the function subscribe returned
Unsubscribe(n, cb) ==
  /\ Commit([Now EXCEPT !.subscriptions[n] = SetDelete(@, cb),
                        !.gone = @ \cup {<<n, cb>>},
                        !.last = Step("unsub", n, Undef, Undef, Undef, 0)])

\* registerDerivation that calls initialize without waiting for the parent
RegisterDerivationNoWait(p, d) ==
  /\ d \notin everReg
  /\ LET s1 == [Now EXCEPT !.derivations[p] = SetAdd(@, d), !.everReg = @ \cup {d}]
     IN Commit(Enq(s1, Job("dreg", p, Undef, Undef, <<>>, 0, d)))

\* registerDerivation(derivation), for a derivation not registered before
RegisterDerivation(p, d) ==
  /\ d \notin everReg
  /\ LET s1 == [Now EXCEPT !.derivations[p] = SetAdd(@, d), !.everReg = @ \cup {d}]
     IN Commit(AwaitGate(s1, p, Job("dreg", p, Undef, Undef, <<>>, 0, d)))

\* The `.then` callbacks of registerDerivation(d) on p that have not run yet.
PendingDregs(p, d) ==
  SelectSeq(waiters[p] \o mq, LAMBDA j : j.k = "dreg" /\ j.n = p /\ j.who = d)

\* registerDerivation(derivation) for a derivation that was registered before:
\* the same code runs, the deferred initialize included.
RegisterDerivationAgain(p, d) ==
  /\ d \in everReg
  /\ ninit[d] + Len(PendingDregs(p, d)) < MaxInit
  /\ LET s1 == [Now EXCEPT !.derivations[p] = SetAdd(@, d), !.unregAt[d] = Undef]
     IN Commit(AwaitGate(s1, p, Job("dreg", p, Undef, Undef, <<>>, 0, d)))

\* deregisterDerivation that leaves the derivation in the parent's set
DeregisterDerivationKeep(p, d) ==
  /\ Commit([Now EXCEPT !.unregAt[d] = IF InSeq(d, derivations[p]) THEN Len(queue) ELSE @])

\* deregisterDerivation(derivation), and the function registerDerivation returned
DeregisterDerivation(p, d) ==
  /\ Commit([Now EXCEPT !.derivations[p] = SetDelete(@, d),
                        !.unregAt[d] = IF InSeq(d, derivations[p]) THEN Len(queue) ELSE @])

\* The continuation of one suspended call, run from the microtask queue.
RunJob(s, j) ==
  CASE j.k = "push" ->
         FoldFrom(s, j.n, s.currentState[j.n], s.currentState[j.n], j.rest, j.idx)
    [] j.k = "catchup" ->
         [s EXCEPT !.seen[<<j.n, j.who>>] = Append(@, s.currentState[j.n]),
                   !.last = Step("catchup", j.n, j.acc, s.currentState[j.n], Undef, 0)]
    [] j.k = "dreg" ->
         LET s1 == [s EXCEPT !.last = Step("dinit", j.who, Undef, s.currentState[j.n], Undef, 0),
                             !.ninit[j.who] = @ + 1]
         IN IF Throws(j.who, "init") THEN Reject(s1, j.who)
            ELSE Enq(s1, Job("dinit1", j.who, s.currentState[j.n], Undef, <<>>, 0, NoOne))
    [] j.k = "dinit1" ->
         IF Throws(j.n, "next") THEN Reject(s, j.n)
         ELSE AwaitResult(s, j.n, Job("dinit2", j.n, SeedState(j.n, j.acc), j.acc,
                                      <<>>, 0, NoOne))
    [] j.k = "dinit2" ->
         Resolve([s EXCEPT !.currentState[j.n] = j.acc], j.n)
    [] j.k = "pdc" ->
         IF Throws(j.n, "next")
         THEN [s EXCEPT !.last = Step("throw", j.n, s.currentState[j.n], Undef,
                                      s.currentState[j.n], 0)]
         ELSE AwaitResult(s, j.n, Job("pdcFin", j.n,
                                      NextStateOf(j.n, j.acc, s.currentState[j.n]),
                                      s.currentState[j.n], <<>>, 0, NoOne))
    [] j.k = "pdcFin" ->
         Finish(Ended(s, j.n, j.pre, j.acc, 0), j.n, j.acc)
    [] OTHER -> s

RunMicrotask ==
  /\ mq # <<>>
  /\ Commit(RunJob([Now EXCEPT !.mq = Tail(@)], Head(mq)))

\* A promise returned by an asynchronous node's getInitialState or
\* getNextState resolves (a timer of the reducer fires): the suspended call
\* goes on.
RunTimer(s, j) ==
  CASE j.k = "init" -> InitFrom(s, j.n, j.acc, j.rest, j.idx)
    [] j.k = "fold" -> FoldFrom(s, j.n, j.acc, j.pre, j.rest, j.idx)
    [] OTHER -> RunJob(s, j)

FireTimer(j) ==
  /\ mq = <<>>
  /\ Commit(RunTimer([Now EXCEPT !.timers = @ \ {j}], j))

Entries == {Single(c) : c \in Cmd} \cup {Batch(cs) : cs \in Batches}

\* One View on the queue, with its subscribers.
Next ==
  \/ \E e \in Entries : QPush(e)
  \/ RegisterView("v1")
  \/ Subscribe("v1", "f")
  \/ RunMicrotask
  \/ \E j \in timers : FireTimer(j)

Spec == Init /\ [][Next]_vars

\* One View with a derivation registered on it, each with a subscriber that
\* subscribes once.
SubscribeNew(n, cb) == ~InSeq(cb, subscriptions[n]) /\ Subscribe(n, cb)

NextD ==
  \/ \E e \in Entries : QPush(e)
  \/ RegisterView("v1")
  \/ SubscribeNew("v1", "f")
  \/ SubscribeNew("d1", "g")
  \/ RegisterDerivation("v1", "d1")
  \/ RunMicrotask
  \/ \E j \in timers : FireTimer(j)

SpecD == Init /\ [][NextD]_vars

\* The same with single commands on one id only.
OneId == {Single("a1"), Single("r1")}

NextN ==
  \/ \E e \in OneId : QPush(e)
  \/ RegisterView("v1")
  \/ SubscribeNew("v1", "f")
  \/ SubscribeNew("d1", "g")
  \/ RegisterDerivation("v1", "d1")
  \/ RunMicrotask
  \/ \E j \in timers : FireTimer(j)

SpecN == Init /\ [][NextN]_vars

\* A View with a derivation whose reducers may throw: each of the methods in
\* Faults does or does not, and the command "x" makes View.getNextState throw.
Faults == {<<"v1", "init">>, <<"d1", "init">>, <<"d1", "next">>}

InitF ==
  /\ queue = <<>>
  /\ views = <<>>
  /\ currentState = [n \in Nodes |-> Undef]
  /\ isInitialized = [n \in Nodes |-> "pending"]
  /\ subscriptions = [n \in Nodes |-> <<>>]
  /\ derivations = [n \in Nodes |-> <<>>]
  /\ async \in SUBSET {"v1"}
  /\ throws \in SUBSET Faults
  /\ waiters = [n \in Nodes |-> <<>>]
  /\ mq = <<>>
  /\ timers = {}
  /\ calls = [n \in Views |-> <<>>]
  /\ seen = [p \in Nodes \X Callbacks |-> <<>>]
  /\ pdcs = [d \in Derivs |-> <<>>]
  /\ everReg = {}
  /\ regAt = [v \in Views |-> Undef]
  /\ held = [v \in Views |-> {}]
  /\ nsub = 0
  /\ unregAt = [n \in Nodes |-> Undef]
  /\ gone = {}
  /\ ninit = [n \in Nodes |-> 0]
  /\ last = NoStep

NextF ==
  \/ \E e \in {Single("a1"), Single("x")} : QPush(e)
  \/ RegisterView("v1")
  \/ SubscribeNew("v1", "f")
  \/ SubscribeNew("d1", "g")
  \/ RegisterDerivation("v1", "d1")
  \/ RunMicrotask
  \/ \E j \in timers : FireTimer(j)

SpecF == InitF /\ [][NextF]_vars

\* A chain: View v1, derivation d1 of v1, derivation d2 of d1 with a
\* subscriber.
NextC ==
  \/ \E c \in Cmd : QPush(Single(c))
  \/ RegisterView("v1")
  \/ RegisterDerivation("v1", "d1")
  \/ RegisterDerivation("d1", "d2")
  \/ SubscribeNew("d2", "g")
  \/ RunMicrotask
  \/ \E j \in timers : FireTimer(j)

SpecC == Init /\ [][NextC]_vars

\* A View with a derivation whose getNextState returns promises, and a
\* subscriber of the derivation.
InitA ==
  /\ queue = <<>>
  /\ views = <<>>
  /\ currentState = [n \in Nodes |-> Undef]
  /\ isInitialized = [n \in Nodes |-> "pending"]
  /\ subscriptions = [n \in Nodes |-> <<>>]
  /\ derivations = [n \in Nodes |-> <<>>]
  /\ async \in {{"d1"}, {"v1", "d1"}}
  /\ throws = {}
  /\ waiters = [n \in Nodes |-> <<>>]
  /\ mq = <<>>
  /\ timers = {}
  /\ calls = [n \in Views |-> <<>>]
  /\ seen = [p \in Nodes \X Callbacks |-> <<>>]
  /\ pdcs = [d \in Derivs |-> <<>>]
  /\ everReg = {}
  /\ regAt = [v \in Views |-> Undef]
  /\ held = [v \in Views |-> {}]
  /\ nsub = 0
  /\ unregAt = [n \in Nodes |-> Undef]
  /\ gone = {}
  /\ ninit = [n \in Nodes |-> 0]
  /\ last = NoStep

NextA ==
  \/ \E e \in OneId : QPush(e)
  \/ RegisterView("v1")
  \/ RegisterDerivation("v1", "d1")
  \/ SubscribeNew("d1", "g")
  \/ RunMicrotask
  \/ \E j \in timers : FireTimer(j)

SpecA == InitA /\ [][NextA]_vars

\* A View with two subscribers, one of which unsubscribes at any time, any
\* number of times, and may subscribe again.
NextS ==
  \/ \E e \in OneId : QPush(e)
  \/ RegisterView("v1")
  \/ Subscribe("v1", "f")
  \/ SubscribeNew("v1", "g")
  \/ Unsubscribe("v1", "f")
  \/ RunMicrotask
  \/ \E j \in timers : FireTimer(j)

SpecS == Init /\ [][NextS]_vars

\* Two Views on one queue, the first of which is unregistered at any time, any
\* number of times.
NextU ==
  \/ \E e \in OneId : QPush(e)
  \/ \E v \in Views : RegisterView(v)
  \/ UnregisterView("v1")
  \/ RunMicrotask
  \/ \E j \in timers : FireTimer(j)

SpecU == Init /\ [][NextU]_vars

\* Two Views with the same reducer on one queue.
InitTwo ==
  /\ queue = <<>>
  /\ views = <<>>
  /\ currentState = [n \in Nodes |-> Undef]
  /\ isInitialized = [n \in Nodes |-> "pending"]
  /\ subscriptions = [n \in Nodes |-> <<>>]
  /\ derivations = [n \in Nodes |-> <<>>]
  /\ async \in {{}, Views}
  /\ throws = {}
  /\ waiters = [n \in Nodes |-> <<>>]
  /\ mq = <<>>
  /\ timers = {}
  /\ calls = [n \in Views |-> <<>>]
  /\ seen = [p \in Nodes \X Callbacks |-> <<>>]
  /\ pdcs = [d \in Derivs |-> <<>>]
  /\ everReg = {}
  /\ regAt = [v \in Views |-> Undef]
  /\ held = [v \in Views |-> {}]
  /\ nsub = 0
  /\ unregAt = [n \in Nodes |-> Undef]
  /\ gone = {}
  /\ ninit = [n \in Nodes |-> 0]
  /\ last = NoStep

NextTwo ==
  \/ \E e \in Entries : QPush(e)
  \/ \E v \in Views : RegisterView(v)
  \/ RunMicrotask
  \/ \E j \in timers : FireTimer(j)

SpecTwo == InitTwo /\ [][NextTwo]_vars

\* One View and one derivation, each of which may be handed to registerView /
\* registerDerivation again.
NextR ==
  \/ \E e \in OneId : QPush(e)
  \/ RegisterView("v1")
  \/ RegisterViewAgain("v1")
  \/ RegisterDerivation("v1", "d1")
  \/ RegisterDerivationAgain("v1", "d1")
  \/ RunMicrotask
  \/ \E j \in timers : FireTimer(j)

SpecR == Init /\ [][NextR]_vars

\* One View with a subscriber and a derivation; the command "x", pushed alone
\* or as the second command of an array, makes getNextState throw.
ThrowEntries == {Single("a1"), Single("x"), Batch(<<"a1", "x">>)}

NextX ==
  \/ \E e \in ThrowEntries : QPush(e)
  \/ RegisterView("v1")
  \/ SubscribeNew("v1", "f")
  \/ RegisterDerivation("v1", "d1")
  \/ RunMicrotask
  \/ \E j \in timers : FireTimer(j)

SpecX == Init /\ [][NextX]_vars

\* A View and a derivation of it, each with a subscriber; the derivation's
\* unsubscribes at any time while it is subscribed and may subscribe again.
UnsubscribeHeld(n, cb) == InSeq(cb, subscriptions[n]) /\ Unsubscribe(n, cb)

NextV ==
  \/ \E e \in OneId : QPush(e)
  \/ RegisterView("v1")
  \/ RegisterDerivation("v1", "d1")
  \/ SubscribeNew("v1", "f")
  \/ SubscribeNew("d1", "g")
  \/ UnsubscribeHeld("d1", "g")
  \/ RunMicrotask
  \/ \E j \in timers : FireTimer(j)

SpecV == Init /\ [][NextV]_vars

\* A View and a derivation of it; a callback subscribes to either, once, while
\* the node is not ready yet, and unsubscribes while the node is still not
\* ready.
SubscribeEarly(n, cb) ==
  /\ isInitialized[n] = "pending"
  /\ <<n, cb>> \notin gone
  /\ SubscribeNew(n, cb)

UnsubscribeEarly(n, cb) ==
  /\ isInitialized[n] = "pending"
  /\ UnsubscribeHeld(n, cb)

NextE ==
  \/ \E e \in OneId : QPush(e)
  \/ RegisterView("v1")
  \/ RegisterDerivation("v1", "d1")
  \/ \E n \in {"v1", "d1"} : SubscribeEarly(n, "f")
  \/ \E n \in {"v1", "d1"} : UnsubscribeEarly(n, "f")
  \/ RunMicrotask
  \/ \E j \in timers : FireTimer(j)

SpecE == Init /\ [][NextE]_vars

\* One View with a derivation that is registered once and deregistered at any
\* time, any number of times; the derivation has a subscriber.
NextG ==
  \/ \E e \in OneId : QPush(e)
  \/ RegisterView("v1")
  \/ RegisterDerivation("v1", "d1")
  \/ DeregisterDerivation("v1", "d1")
  \/ SubscribeNew("d1", "g")
  \/ RunMicrotask
  \/ \E j \in timers : FireTimer(j)

SpecG == Init /\ [][NextG]_vars

\* Two Views on one queue. The first never gets ready: either its reducer is
\* asynchronous and its promises never resolve, or its getInitialState throws.
\* The second works, synchronously or asynchronously, and has a subscriber.
InitL ==
  /\ queue = <<>>
  /\ views = <<>>
  /\ currentState = [n \in Nodes |-> Undef]
  /\ isInitialized = [n \in Nodes |-> "pending"]
  /\ subscriptions = [n \in Nodes |-> <<>>]
  /\ derivations = [n \in Nodes |-> <<>>]
  /\ async \in SUBSET Views
  /\ throws = IF "v1" \in async THEN {} ELSE {<<"v1", "init">>}
  /\ waiters = [n \in Nodes |-> <<>>]
  /\ mq = <<>>
  /\ timers = {}
  /\ calls = [n \in Views |-> <<>>]
  /\ seen = [p \in Nodes \X Callbacks |-> <<>>]
  /\ pdcs = [d \in Derivs |-> <<>>]
  /\ everReg = {}
  /\ regAt = [v \in Views |-> Undef]
  /\ held = [v \in Views |-> {}]
  /\ nsub = 0
  /\ unregAt = [n \in Nodes |-> Undef]
  /\ gone = {}
  /\ ninit = [n \in Nodes |-> 0]
  /\ last = NoStep

\* A promise of the working View's reducer resolves.
FireWorking == \E j \in timers : j.n # "v1" /\ FireTimer(j)

NextL ==
  \/ \E e \in OneId : QPush(e)
  \/ \E v \in Views : RegisterView(v)
  \/ SubscribeNew("v2", "f")
  \/ RunMicrotask
  \/ FireWorking

\* The microtask queue is always drained, and a promise of the working View's
\* reducer does resolve.
SpecL == InitL /\ [][NextL]_vars /\ WF_vars(RunMicrotask) /\ WF_vars(FireWorking)

\* ------------------------------------------------------------------ properties
\* Nothing is pending: no microtask, no unresolved reducer promise.
Quiet == mq = <<>> /\ timers = {}

\* The live getNextState calls a view made for the push at queue position k.
LiveOf(v, k) == SelectSeq(calls[v], LAMBDA c : c.live /\ c.idx = k)
EntriesOf(cs) == [i \in 1..Len(cs) |-> cs[i].e]
IsPrefix(a, b) == Len(a) <= Len(b) /\ \A i \in 1..Len(a) : a[i] = b[i]

\* C1: a command pushed after registerView (in particular one pushed while the
\* View is still initializing) is never replayed by initialize: the replay
\* takes exactly the commands of the snapshot, in order; it is folded live only
\* after the whole snapshot has been replayed and the gate has resolved; and it
\* is folded at most once, exactly once when nothing is pending any more.
C1_ReplayThenStream ==
  \A v \in {"v1"} :
    LET cs == calls[v]
        N == regAt[v]
    IN /\ \A i \in 1..Len(cs) :
            IF cs[i].live
            THEN /\ i > N
                 /\ cs[i].idx > N
                 /\ isInitialized[v] = "resolved"
            ELSE /\ i <= N
                 /\ cs[i].idx = i
                 /\ cs[i].e = queue[i]
       /\ \A k \in 1..Len(queue) :
            /\ IsPrefix(EntriesOf(LiveOf(v, k)), Items(queue[k]))
            /\ (k > N /\ Quiet /\ isInitialized[v] = "resolved")
                 => EntriesOf(LiveOf(v, k)) = Items(queue[k])

\* C1 witness: a command pushed while the View was initializing over a
\* non-empty snapshot has been folded live.
C1_Witness ==
  /\ regAt["v1"] >= 1
  /\ \E i \in 1..Len(calls["v1"]) :
       calls["v1"][i].live /\ calls["v1"][i].idx \in held["v1"]

\* C2: on one node no two reductions overlap: at any time at most one push of
\* a View, and at most one parentDidChange of a derivation, has read the
\* node's state and not yet written its result.
C2_NoOverlap ==
  /\ \A v \in Views : Cardinality({j \in timers : j.k = "fold" /\ j.n = v}) <= 1
  /\ \A d \in Derivs : Len(SelectSeq(mq, LAMBDA j : j.k = "pdcFin" /\ j.n = d)) <= 1

\* C3: every getNextState call of a View receives the state the previous call
\* produced, and once nothing is pending the View's state is the sequential
\* fold of the commands in push order.
C3_SequentialFold ==
  \A v \in {"v1"} :
    /\ \A i \in 1..(Len(calls[v]) - 1) :
         calls[v][i + 1].st = ApplyEntry(calls[v][i].st, calls[v][i].e)
    /\ (Quiet /\ isInitialized[v] = "resolved")
         => currentState[v] = FoldEntries(getInitialState, EntriesOf(calls[v]))

\* C6: one push of an array notifies the subscribers of a View at most once:
\* not while the fold is suspended between two commands, at its end only with
\* the value the whole array folded to, and not at all when that value is the
\* state the fold started from.
C6_OneWavePerBatch ==
  [][LET b == last'.idx
         v == last'.n
     IN (b > 0 /\ queue[b].arr) =>
          /\ last'.k = "suspend" => seen' = seen
          /\ last'.k = "fin" =>
               /\ \A cb \in Callbacks :
                    \/ seen'[<<v, cb>>] = seen[<<v, cb>>]
                    \/ seen'[<<v, cb>>] = Append(seen[<<v, cb>>], last'.res)
               /\ last'.res = last'.pre => seen' = seen]_vars

\* C7: the queue holds one entry per command pushed, also for the commands
\* pushed as an array, and initialize replays single commands only.
C7_OneEntryPerCommand ==
  /\ \A i \in 1..Len(queue) : ~queue[i].arr
  /\ \A v \in Views : \A i \in 1..Len(calls[v]) : ~calls[v][i].e.arr

\* C10: a callback is never called twice in a row with the same value.
C10_NoRepeatedValue ==
  \A p \in Nodes \X Callbacks :
    \A i \in 1..(Len(seen[p]) - 1) : seen[p][i] # seen[p][i + 1]

\* C4: a View registered after the N commands of the queue were pushed ends in
\* the state of a View with the same reducer that was registered before the
\* first push and has processed the same N commands.
C4_LateViewSameState ==
  (/\ Quiet
   /\ regAt["v1"] = 0 /\ isInitialized["v1"] = "resolved"
   /\ regAt["v2"] = Len(queue) /\ isInitialized["v2"] = "resolved")
    => currentState["v2"] = currentState["v1"]

\* C5: the commands of the queue pushed one at a time leave a View attached
\* from the start, and a derivation registered on it, in the state that one
\* push of the array of these commands leaves them in.
AllCmds == [i \in 1..Len(queue) |-> queue[i].cs[1]]
BatchFold == FoldEntries(getInitialState, Items(Batch(AllCmds)))
C5_BatchEqualsOneByOne ==
  (/\ Quiet
   /\ regAt["v1"] = 0 /\ isInitialized["v1"] = "resolved"
   /\ \A i \in 1..Len(queue) : ~queue[i].arr)
    => /\ currentState["v1"] = BatchFold
       /\ (InSeq("d1", derivations["v1"]) /\ isInitialized["d1"] = "resolved")
            => currentState["d1"] = derivNextState(BatchFold, currentState["d1"])

\* C8: a push or parentDidChange whose fold ends in the state it started from
\* leaves the node's state alone, calls no subscriber and no parentDidChange.
C8_NoChangeNoNotification ==
  [][(last'.k = "fin" /\ last'.res = last'.pre)
       => /\ currentState' = currentState
          /\ seen' = seen
          /\ pdcs' = pdcs]_vars

\* C9: a push of a View that ends in a value other than the View's state
\* replaces the state by it, calls every subscribed callback once with it and
\* no other callback, and calls parentDidChange once with it on every
\* registered derivation and on no other.
C9_ChangeNotifiesAll ==
  [][\A v \in Views :
       (last'.k = "fin" /\ last'.n = v /\ last'.res # currentState[v]) =>
         LET x == last'.res
         IN /\ currentState'[v] = x
            /\ \A cb \in Callbacks :
                 seen'[<<v, cb>>] = IF InSeq(cb, subscriptions[v])
                                    THEN Append(seen[<<v, cb>>], x)
                                    ELSE seen[<<v, cb>>]
            /\ \A d \in Derivs :
                 pdcs'[d] = IF InSeq(d, derivations[v])
                            THEN Append(pdcs[d], x)
                            ELSE pdcs[d]]_vars

\* C9 witness: a push of v1 has just changed its state while f was subscribed
\* and d1 registered; both were told.
C9_Witness ==
  /\ last.k = "fin" /\ last.n = "v1" /\ last.res # last.old
  /\ InSeq("f", subscriptions["v1"]) /\ InSeq("d1", derivations["v1"])
  /\ seen[<<"v1", "f">>] # <<>> /\ pdcs["d1"] # <<>>

\* The catch-up calls of cb on node n that subscribe has queued and that have
\* not run yet.
CatchupsIn(js, n, cb) ==
  SelectSeq(js, LAMBDA j : j.k = "catchup" /\ j.n = n /\ j.who = cb)
PendingCatchups(n, cb) == CatchupsIn(waiters[n] \o mq, n, cb)

\* C11: a subscribe call on a ready node makes one catch-up call, with the
\* node's state at the time of the call, to that callback and to no other; and
\* no transition calls a callback whose catch-up from a subscribe on the ready
\* node has not run yet.
C11_CatchUpFirst ==
  [][/\ (last'.k = "catchup" /\ last'.pre # Undef /\ mq # <<>>) =>
          LET j == Head(mq)
          IN /\ PendingCatchups(j.n, j.who) # <<>>
             /\ Len(CatchupsIn(waiters'[j.n] \o mq', j.n, j.who))
                  = Len(PendingCatchups(j.n, j.who)) - 1
             /\ seen' = [seen EXCEPT ![<<j.n, j.who>>] = Append(@, currentState[j.n])]
     /\ \A n \in Nodes : \A cb \in Callbacks :
          (last'.k = "fin" /\ last'.n = n /\ seen'[<<n, cb>>] # seen[<<n, cb>>]) =>
            \A i \in 1..Len(PendingCatchups(n, cb)) : PendingCatchups(n, cb)[i].acc = Undef]_vars

\* C12: no callback is called before its node's gate has resolved, none is
\* ever called with the unset state, a callback subscribed before the node was
\* ready is not called by a transition before its catch-up, and the catch-up
\* of a callback subscribed before a View registered on an empty log was ready
\* hands it, as its first value, getInitialState.
C12_NotBeforeReady ==
  /\ [](\A p \in Nodes \X Callbacks :
          /\ seen[p] # <<>> => isInitialized[p[1]] = "resolved"
          /\ \A i \in 1..Len(seen[p]) : seen[p][i] # Undef)
  /\ [][/\ \A n \in Nodes : \A cb \in Callbacks :
            (last'.k = "fin" /\ last'.n = n /\ seen'[<<n, cb>>] # seen[<<n, cb>>]) =>
              \A i \in 1..Len(PendingCatchups(n, cb)) : PendingCatchups(n, cb)[i].acc # Undef
        /\ (last'.k = "catchup" /\ last'.pre = Undef /\ mq # <<>>) =>
             LET j == Head(mq)
             IN /\ isInitialized[j.n] = "resolved"
                /\ (j.n \in Views /\ regAt[j.n] = 0 /\ seen[<<j.n, j.who>>] = <<>>)
                     => /\ last'.res = getInitialState
                        /\ seen'[<<j.n, j.who>>] = <<getInitialState>>]_vars

\* C12 witness: f subscribed to v1 before it was ready, v1 started from an
\* empty log, and the catch-up has just handed f its first value.
C12_Witness ==
  /\ last.k = "catchup" /\ last.n = "v1" /\ last.pre = Undef
  /\ regAt["v1"] = 0
  /\ Len(seen[<<"v1", "f">>]) = 1

\* The fold of a log, command by command (the commands of an array one by one).
RECURSIVE FoldLog(_, _)
FoldLog(s, q) ==
  IF q = <<>> THEN s ELSE FoldLog(FoldEntries(s, Items(Head(q))), Tail(q))

\* C13: every push made after a View was registered is forwarded to it and
\* folded by it, whatever other Views are attached, and once nothing is
\* pending the state of every ready View is the fold of the whole log.
C13_EachViewFoldsLog ==
  \A v \in Views :
    (Quiet /\ isInitialized[v] = "resolved") =>
      /\ \A k \in (regAt[v] + 1)..Len(queue) :
           EntriesOf(LiveOf(v, k)) = Items(queue[k])
      /\ currentState[v] = FoldLog(getInitialState, queue)

\* The queue positions of the pushes handed to View v that have not run to
\* their end yet.
InFlight(v) ==
  {j.idx : j \in {j \in timers : j.k = "fold" /\ j.n = v}}
    \cup {(waiters[v] \o mq)[i].idx :
            i \in {i \in 1..Len(waiters[v] \o mq) :
                     (waiters[v] \o mq)[i].k = "push" /\ (waiters[v] \o mq)[i].n = v}}

\* C14: no push made after a View was unregistered is handed to it (none is
\* waiting, in flight or folded); unregisterView removes that view from the
\* attached views and changes nothing else, and nothing at all when the view
\* is not attached.
C14_NoForwardAfterUnregister ==
  /\ [](\A v \in Views :
          unregAt[v] # Undef =>
            /\ ~InSeq(v, views)
            /\ \A k \in InFlight(v) \cup held[v] : k <= unregAt[v]
            /\ \A i \in 1..Len(calls[v]) : calls[v][i].idx <= unregAt[v])
  /\ [][last'.k = "unreg" =>
          /\ views' = SetDelete(views, last'.n)
          /\ ~InSeq(last'.n, views) => views' = views
          /\ UNCHANGED <<queue, currentState, isInitialized, subscriptions,
                         derivations, waiters, mq, timers, calls, seen>>]_vars

\* C14 witness: v1 was unregistered, a command was pushed afterwards and
\* everything has run.
C14_Witness ==
  /\ unregAt["v1"] # Undef /\ Len(queue) > unregAt["v1"]
  /\ isInitialized["v1"] = "resolved" /\ InSeq("v2", views)
  /\ Quiet

\* The seeding of node n has ended in an exception: initialize was called,
\* getInitialState or a reducer step of its fold throws, and it has run up to
\* there.
SeedFailed(n) ==
  IF n \in Views
  THEN /\ n \in everReg
       /\ \/ Throws(n, "init")
          \/ \E i \in 1..regAt[n] : ApplyEntry(getInitialState, queue[i]) = Thrown
       /\ ~\E j \in timers : j.k = "init" /\ j.n = n
  ELSE /\ Throws(n, "init") \/ Throws(n, "next")
       /\ \E p \in Nodes :
            /\ InSeq(n, derivations[p]) /\ isInitialized[p] = "resolved"
            /\ ~\E i \in 1..Len(mq) :
                 \/ mq[i].k = "dreg" /\ mq[i].who = n
                 \/ mq[i].k = "dinit1" /\ mq[i].n = n

\* C15: a node whose seeding ended in an exception has its gate rejected; a
\* rejected gate stays rejected; the state of a node with a rejected gate is
\* and stays unset, none of its subscribers is ever called, and no derivation
\* registered on it is handed initialize (its gate stays pending, its state
\* unset).
C15_SeedingFailure ==
  /\ [](\A n \in Nodes :
          /\ SeedFailed(n) => isInitialized[n] = "rejected"
          /\ isInitialized[n] = "rejected" =>
               /\ currentState[n] = Undef
               /\ \A cb \in Callbacks : seen[<<n, cb>>] = <<>>
               /\ \A d \in Derivs :
                    InSeq(d, derivations[n]) =>
                      /\ isInitialized[d] = "pending" /\ currentState[d] = Undef
                      /\ ~(last.k = "dinit" /\ last.n = d))
  /\ [][\A n \in Nodes :
          isInitialized[n] = "rejected" =>
            isInitialized'[n] = "rejected" /\ currentState'[n] = currentState[n]]_vars

\* C15 witness: the seeding of v1 has failed while f was subscribed and d1
\* registered on it; a command was pushed afterwards and everything has run.
C15_Witness ==
  /\ isInitialized["v1"] = "rejected" /\ Len(queue) > regAt["v1"]
  /\ InSeq("f", subscriptions["v1"]) /\ InSeq("d1", derivations["v1"])
  /\ Quiet

\* C15 witness for a derivation: the seeding of d1 on the ready v1 has failed
\* while g was subscribed to it, and v1 has changed afterwards.
C15_WitnessDerivation ==
  /\ isInitialized["d1"] = "rejected" /\ InSeq("g", subscriptions["d1"])
  /\ pdcs["d1"] # <<>>
  /\ Quiet

\* The parentDidChange calls of derivation d that have not ended yet.
PendingPdcs(d) ==
  SelectSeq(waiters[d] \o mq, LAMBDA j : j.k \in {"pdc", "pdcFin"} /\ j.n = d)

\* C16: in the chain v1 -> d1 -> d2, d2 is handed parentDidChange only by a
\* parentDidChange of d1 that changes d1's state, once, with d1's new state
\* (and d1 likewise by a push of v1), so that d2 gets at most one
\* parentDidChange per command; and a parentDidChange of d2 calls a subscriber
\* of d2 at most once, with d2's reducer applied to the state of d1 it was
\* handed.
C16_ChainOneWave ==
  /\ [](/\ Len(pdcs["d2"]) <= Len(pdcs["d1"])
        /\ Len(pdcs["d1"]) <= Len(queue)
        /\ Len(seen[<<"d2", "g">>]) <= Len(pdcs["d2"]) + 1)
  /\ [][/\ pdcs'["d2"] # pdcs["d2"] =>
            /\ last'.k = "fin" /\ last'.n = "d1" /\ last'.res # currentState["d1"]
            /\ currentState'["d1"] = last'.res
            /\ pdcs'["d2"] = Append(pdcs["d2"], last'.res)
        /\ pdcs'["d1"] # pdcs["d1"] =>
            /\ last'.k = "fin" /\ last'.n = "v1" /\ last'.res # currentState["v1"]
            /\ pdcs'["d1"] = Append(pdcs["d1"], last'.res)
        /\ (last'.k = "fin" /\ last'.n = "d2" /\ mq # <<>>) =>
            LET x == pdcs["d2"][Len(pdcs["d2"]) - Len(PendingPdcs("d2")) + 1]
                r == secondNextState(x, currentState["d2"])
            IN /\ last'.res = r
               /\ \A cb \in Callbacks :
                    \/ seen'[<<"d2", cb>>] = seen[<<"d2", cb>>]
                    \/ /\ seen'[<<"d2", cb>>] = Append(seen[<<"d2", cb>>], r)
                       /\ r = currentState'["d2"]]_vars

\* C16 witness: one command was pushed to the chain, all three states changed
\* and g, subscribed to d2 before, was told.
C16_Witness ==
  /\ Len(queue) = 1 /\ regAt["v1"] = 0
  /\ last.k = "fin" /\ last.n = "d2" /\ last.res # last.old
  /\ Len(pdcs["d1"]) = 1 /\ Len(pdcs["d2"]) = 1
  /\ Len(seen[<<"d2", "g">>]) = 2

\* The seeding of derivation d that is under way: registerDerivation's `then`
\* callback waiting to run, or initialize at one of its awaits.
Seeding(p, d) ==
  SelectSeq(waiters[p] \o mq,
            LAMBDA j : \/ j.k = "dreg" /\ j.n = p /\ j.who = d
                       \/ j.k \in {"dinit1", "dinit2"} /\ j.n = d)

\* C17: a registered derivation is seeded by one initialize call: the call is
\* made when the parent's gate has resolved, not before, with the state the
\* parent has at that moment, whatever number of commands the parent has
\* folded; no second seeding of the derivation is under way or follows; and
\* the derivation becomes ready with its reducer applied once, to that state
\* and its getInitialState.
C17_SeededOnce ==
  /\ [](\A p \in Nodes : \A d \in Derivs :
          /\ Len(Seeding(p, d)) <= 1
          /\ isInitialized[d] # "pending" => Seeding(p, d) = <<>>)
  /\ [][/\ (last'.k = "dinit" /\ mq # <<>>) =>
            LET p == Head(mq).n
                d == Head(mq).who
            IN /\ Head(mq).k = "dreg" /\ d = last'.n
               /\ isInitialized[p] = "resolved" /\ currentState[p] # Undef
               /\ last'.res = currentState[p]
               /\ isInitialized[d] = "pending"
        /\ \A d \in Derivs :
            (isInitialized[d] = "pending" /\ isInitialized'[d] = "resolved") =>
              /\ Head(mq).k = "dinit2" /\ Head(mq).n = d
              /\ currentState'[d] = NextStateOf(d, Head(mq).pre, InitialStateOf(d))
              /\ \E p \in Nodes :
                   /\ InSeq(d, derivations[p]) /\ isInitialized[p] = "resolved"
                   /\ \/ Head(mq).pre = currentState[p]
                      \/ pdcs[d] # <<>> /\ pdcs[d][Len(pdcs[d])] = currentState[p]]_vars

\* C17 witness: d1 was registered on v1 after v1 had folded a command and
\* changed; it is ready, was handed no parentDidChange and holds its reducer
\* applied to v1's state.
C17_Witness ==
  /\ isInitialized["d1"] = "resolved" /\ pdcs["d1"] = <<>>
  /\ regAt["v1"] = 0 /\ Len(calls["v1"]) >= 1 /\ currentState["v1"] # getInitialState
  /\ currentState["d1"] = derivNextState(currentState["v1"], derivInitialState)

C19_DerivationFollowsParent ==
  Quiet =>
    \A p \in Nodes : \A d \in Derivs :
      (InSeq(d, derivations[p]) /\ isInitialized[p] = "resolved") =>
        /\ isInitialized[d] = "resolved"
        /\ currentState[d] = NextStateOf(d, currentState[p], currentState[d])
        /\ \A cb \in Callbacks :
             InSeq(cb, subscriptions[d]) =>
               /\ seen[<<d, cb>>] # <<>>
               /\ seen[<<d, cb>>][Len(seen[<<d, cb>>])] = currentState[d]

\* C20: a callback that was unsubscribed and not subscribed again is not in
\* the subscriber set and no transition of the node calls it; unsubscribe
\* takes that callback out of the node's set and changes nothing else, and
\* nothing at all when the callback is not in the set.
C20_NoCallAfterUnsubscribe ==
  /\ [](\A p \in gone : ~InSeq(p[2], subscriptions[p[1]]))
  /\ [][/\ last'.k \in {"fin", "suspend", "throw"} =>
            \A p \in gone : seen'[p] = seen[p]
        /\ last'.k = "unsub" =>
            /\ subscriptions' =
                 [subscriptions EXCEPT ![last'.n] =
                    SelectSeq(@, LAMBDA cb : <<last'.n, cb>> \notin gone')]
            /\ (\A cb \in Callbacks :
                   <<last'.n, cb>> \in gone' => ~InSeq(cb, subscriptions[last'.n]))
                 => subscriptions' = subscriptions
            /\ UNCHANGED <<queue, views, currentState, isInitialized, derivations,
                           waiters, mq, timers, calls, seen, pdcs>>]_vars

\* C20 witness: f was called by v1, was unsubscribed, and a push has just
\* changed v1 and called g, not f.
C20_Witness ==
  /\ <<"v1", "f">> \in gone /\ seen[<<"v1", "f">>] # <<>>
  /\ last.k = "fin" /\ last.n = "v1" /\ last.res # last.old
  /\ InSeq("g", subscriptions["v1"])
  /\ Len(seen[<<"v1", "g">>]) >= 2



\* C21: getInitialState is called exactly once in the lifetime of a View or a
\* derivation, whatever the sequence of operations, registering the same node
\* again included.
C21_InitialStateOnce == \A n \in Nodes : ninit[n] <= 1

\* The getNextState calls initialize made for a view (its replay).
ReplayOf(v) == SelectSeq(calls[v], LAMBDA c : ~c.live)

\* C22: the log is append-only: a push appends one entry and leaves the earlier
\* entries as they were, registerView and unregisterView leave the log as it is,
\* and the snapshot handed to initialize is a copy: the replay folds the
\* entries the log had at registerView and none pushed later.
C22_LogAppendOnly ==
  /\ [][/\ IsPrefix(queue, queue')
        /\ Len(queue') <= Len(queue) + 1
        /\ (everReg' # everReg \/ views' # views \/ last'.k = "unreg") => queue' = queue]_vars
  /\ [](\A v \in Views \cap everReg :
          /\ Len(ReplayOf(v)) <= regAt[v]
          /\ \A i \in 1..Len(ReplayOf(v)) :
                ReplayOf(v)[i].idx = i /\ ReplayOf(v)[i].e = queue[i]
          /\ isInitialized[v] = "resolved" => Len(ReplayOf(v)) = regAt[v])

\* An asynchronous View is ready after a replay during which the log grew, and
\* has been unregistered since.
C22_Witness ==
  /\ "v1" \in async
  /\ isInitialized["v1"] = "resolved"
  /\ regAt["v1"] >= 1
  /\ held["v1"] # {}
  /\ unregAt["v1"] # Undef
  /\ Len(queue) > regAt["v1"]

\* The suspended steps of a view's initialize.
InitSteps(v) == {j \in timers : j.k = "init" /\ j.n = v}

\* C23: with an asynchronous reducer initialize folds the history strictly in
\* order: the first step starts from the initial state and step i + 1 starts
\* from the result of step i, after step i has completed (one step is pending
\* at a time, and it is the last one started); the gate resolves only after
\* the last step, and at that moment the state is the sequential fold of the
\* whole history.
C23_InitializeInOrder ==
  /\ [](\A v \in Views \cap everReg :
          LET rp == ReplayOf(v)
          IN /\ \A i \in 1..Len(rp) :
                  /\ rp[i].idx = i
                  /\ rp[i].e = queue[i]
                  /\ rp[i].st = FoldEntries(getInitialState, SubSeq(queue, 1, i - 1))
             /\ Cardinality(InitSteps(v)) <= 1
             /\ \A j \in InitSteps(v) :
                  /\ j.idx = Len(rp)
                  /\ j.rest = SubSeq(queue, j.idx + 1, regAt[v])
                  /\ isInitialized[v] = "pending"
             /\ isInitialized[v] = "resolved" => Len(rp) = regAt[v])
  /\ [][\A v \in Views :
          isInitialized[v] = "pending" /\ isInitialized'[v] = "resolved"
          => currentState'[v] = FoldEntries(getInitialState, SubSeq(queue', 1, regAt'[v]))]_vars

\* An asynchronous View is ready after a replay of two entries that changed
\* its state.
C23_Witness ==
  /\ "v1" \in async
  /\ isInitialized["v1"] = "resolved"
  /\ regAt["v1"] = 2
  /\ Len(ReplayOf("v1")) = 2
  /\ ReplayOf("v1")[2].st # getInitialState
  /\ currentState["v1"] # ReplayOf("v1")[2].st

\* C24: a node goes from Uninitialized through Initializing to Ready or Failed
\* and stays there: its gate settles at most once, and once the node is Ready
\* its state is replaced only by the result of a push / parentDidChange fold,
\* never again by a seeding fold, whatever the sequence of operations,
\* repeated registerView included.
C24_Lifecycle ==
  [][\A n \in Nodes :
       /\ isInitialized[n] # "pending" => isInitialized'[n] = isInitialized[n]
       /\ isInitialized[n] = "resolved" /\ currentState'[n] # currentState[n]
          => last'.k = "fin" /\ last'.n = n /\ currentState'[n] = last'.res
       /\ isInitialized[n] = "rejected" => currentState'[n] = currentState[n]]_vars

\* View v has folded the entry at queue position k: in its replay, or in a
\* push that has run to its end.
Folded(v, k) ==
  /\ isInitialized[v] = "resolved"
  /\ k > regAt[v] => LiveOf(v, k) # <<>> /\ k \notin InFlight(v)

\* View v has caught up: it has folded every entry of the log, and each of
\* its subscribers has been handed its state.
CaughtUp(v) ==
  /\ \A k \in 1..Len(queue) : Folded(v, k)
  /\ \A cb \in Callbacks :
       InSeq(cb, subscriptions[v])
       => /\ seen[<<v, cb>>] # <<>>
          /\ seen[<<v, cb>>][Len(seen[<<v, cb>>])] = currentState[v]

\* C25: a View that never gets ready (its reducer never resolves, or its
\* seeding failed) does not block its siblings: every other registered View
\* eventually folds every pushed command and brings its subscribers up to its
\* state; push and registerView go through whatever state the stuck View is in.
C25_SiblingsProgress ==
  /\ ("v2" \in everReg) ~> CaughtUp("v2")
  /\ [](isInitialized["v1"] # "resolved")

\* The stuck View was registered first, pushes made after both Views were
\* registered are waiting at it (or it has failed), and the other View has
\* folded them and notified its subscriber of a change.
C25_Witness ==
  /\ views = <<"v1", "v2">>
  /\ regAt["v2"] = 0
  /\ Len(queue) = 2
  /\ Folded("v2", 1) /\ Folded("v2", 2)
  /\ isInitialized["v1"] = "rejected" \/ 2 \in held["v1"]
  /\ Len(seen[<<"v2", "f">>]) >= 2

\* Nothing of derivation d is under way: no parentDidChange, no seeding, no
\* catch-up.
Idle(p, d) ==
  /\ PendingPdcs(d) = <<>>
  /\ Seeding(p, d) = <<>>
  /\ \A cb \in Callbacks : PendingCatchups(d, cb) = <<>>
  /\ \A j \in timers : j.n # d

\* C26: once deregisterDerivation(d) was called on its parent, no later state
\* change of the parent calls d.parentDidChange, d stays out of the parent's
\* set, and pushes to the parent no longer affect d: when what was under way
\* in d at that time has ended, d's state and what its subscribers have been
\* handed stay as they are.
C26_NoChangeAfterDeregister ==
  [][unregAt["d1"] # Undef
     => /\ pdcs'["d1"] = pdcs["d1"]
        /\ ~InSeq("d1", derivations'["v1"])
        /\ Idle("v1", "d1")
           => /\ currentState'["d1"] = currentState["d1"]
              /\ \A cb \in Callbacks : seen'[<<"d1", cb>>] = seen[<<"d1", cb>>]]_vars

\* The derivation was handed a change of its parent, was deregistered, and the
\* parent has just changed its state in a push made after that.
C26_Witness ==
  /\ unregAt["d1"] # Undef
  /\ pdcs["d1"] # <<>>
  /\ seen[<<"d1", "g">>] # <<>>
  /\ last.k = "fin" /\ last.n = "v1"
  /\ last.idx > unregAt["d1"]
  /\ last.res # last.old

\* C27: each state change of the parent is folded into a registered
\* derivation exactly once: the parent state handed to initialize as the seed
\* is not also the argument of a parentDidChange call made for the same
\* derivation and still waiting to be folded, for any ordering of push and
\* registerDerivation (a push issued before registerDerivation whose reduction
\* ends after it included).
C27_SeedNotFoldedAgain ==
  [][\A d \in Derivs :
       last'.k = "dinit" /\ last'.n = d /\ PendingPdcs(d) # <<>>
       => PendingPdcs(d)[Len(PendingPdcs(d))].acc # last'.res]_vars

\* The commands of the log entry at position k.
CmdsAt(k) == {queue[k].cs[i] : i \in 1..Len(queue[k].cs)}

\* C28: when getNextState throws during a push on a ready View (at any step
\* of an array push), the View's state stays what it was, no subscriber and no
\* derivation is notified, and the View stays Ready; a push with a throwing
\* command never gets to store a state; and a later push folds from the
\* View's unchanged current state.
C28_ThrowLeavesState ==
  [][/\ last'.k = "throw"
        => /\ currentState' = currentState
           /\ isInitialized' = isInitialized
           /\ seen' = seen
           /\ pdcs' = pdcs
           /\ subscriptions' = subscriptions
           /\ derivations' = derivations
     /\ (last'.k = "fin" /\ last'.n \in Views) => "x" \notin CmdsAt(last'.idx)
     /\ \A v \in Views :
          (/\ mq # <<>>
           /\ Head(mq).k = "push" /\ Head(mq).n = v
           /\ Len(calls'[v]) > Len(calls[v]))
          => /\ calls'[v][Len(calls[v]) + 1].live
             /\ calls'[v][Len(calls[v]) + 1].st = currentState[v]]_vars

\* The ready View has been handed an array whose second command threw, and
\* the next push has folded from the state the View had before and notified
\* the subscriber and the derivation of the change.
C28_Witness ==
  /\ regAt["v1"] = 0
  /\ Len(queue) = 2
  /\ queue[1] = Batch(<<"a1", "x">>)
  /\ \E i \in 1..Len(calls["v1"]) : calls["v1"][i].live /\ calls["v1"][i].e = Single("x")
  /\ last.k = "fin" /\ last.n = "v1" /\ last.idx = 2
  /\ last.pre = getInitialState
  /\ last.res # last.old
  /\ seen[<<"v1", "f">>] # <<>>
  /\ pdcs["d1"] # <<>>

\* C29: whenever a subscriber callback is invoked, in a catch-up or in a
\* wave, the value it is handed is the node's current state at that instant;
\* and once all pending work has ended, the last value every callback that is
\* still subscribed to a ready node has received is the node's current state.
C29_ValueIsCurrentState ==
  /\ [][\A p \in Nodes \X Callbacks :
          seen'[p] # seen[p]
          => /\ Len(seen'[p]) = Len(seen[p]) + 1
             /\ SubSeq(seen'[p], 1, Len(seen[p])) = seen[p]
             /\ seen'[p][Len(seen'[p])] = currentState'[p[1]]]_vars
  /\ [](Quiet
        => \A p \in Nodes \X Callbacks :
             InSeq(p[2], subscriptions[p[1]]) /\ isInitialized[p[1]] = "resolved"
             => /\ seen[p] # <<>>
                /\ seen[p][Len(seen[p])] = currentState[p[1]])

\* All work has ended; the derivation's subscriber has unsubscribed and
\* missed a change, the View's subscriber is still subscribed after a catch-up
\* and a change.
C29_Witness ==
  /\ Quiet
  /\ ~InSeq("g", subscriptions["d1"])
  /\ seen[<<"d1", "g">>] # <<>>
  /\ seen[<<"d1", "g">>][Len(seen[<<"d1", "g">>])] # currentState["d1"]
  /\ InSeq("f", subscriptions["v1"])
  /\ Len(seen[<<"v1", "f">>]) >= 2
  /\ seen[<<"v1", "f">>][Len(seen[<<"v1", "f">>])] = currentState["v1"]

\* The parentDidChange calls of derivation d among the jobs js.
PdcsIn(js, d) == SelectSeq(js, LAMBDA j : j.k = "pdc" /\ j.n = d)

\* C30: in the step that ends a push / parentDidChange of node p with a
\* change, p's state is replaced, each of p's subscribers is called with the
\* new value and each child derivation is handed it by parentDidChange; the
\* child has not folded it yet and no subscriber of the child is called in
\* that step, so p's subscribers see p's new state before a subscriber of a
\* child sees the state the child derives from it.
C30_WaveOrder ==
  [][\A p \in Nodes :
       (last'.k = "fin" /\ last'.n = p /\ last'.res # last'.old)
       => /\ currentState'[p] = last'.res
          /\ \A cb \in Callbacks :
               InSeq(cb, subscriptions[p])
               => seen'[<<p, cb>>] = Append(seen[<<p, cb>>], last'.res)
          /\ \A d \in Derivs :
               InSeq(d, derivations[p])
               => /\ pdcs'[d] = Append(pdcs[d], last'.res)
                  /\ currentState'[d] = currentState[d]
                  /\ \A cb \in Callbacks : seen'[<<d, cb>>] = seen[<<d, cb>>]
                  /\ PdcsIn(waiters'[d] \o mq', d) # <<>>
                  /\ PdcsIn(waiters'[d] \o mq', d)[Len(PdcsIn(waiters'[d] \o mq', d))].acc
                       = last'.res]_vars

\* A push has just changed the View's state and called its subscriber with
\* it; the ready derivation has been handed the new state and its subscriber
\* still has the value derived from the old one.
C30_Witness ==
  /\ last.k = "fin" /\ last.n = "v1" /\ last.res # last.old
  /\ seen[<<"v1", "f">>] # <<>>
  /\ seen[<<"v1", "f">>][Len(seen[<<"v1", "f">>])] = currentState["v1"]
  /\ isInitialized["d1"] = "resolved"
  /\ PendingPdcs("d1") # <<>>
  /\ seen[<<"d1", "g">>] # <<>>
  /\ currentState["d1"] # derivNextState(currentState["v1"], currentState["d1"])
  /\ seen[<<"d1", "g">>][Len(seen[<<"d1", "g">>])] = currentState["d1"]

\* C31: a callback that was subscribed while the node was not ready and
\* unsubscribed before the node's gate resolved is never invoked, neither by
\* the catch-up nor by a later transition.
C31_NeverInvoked == \A p \in gone : seen[p] = <<>>

====
